---- MODULE Spec2Model ----
(***************************************************************************)
(* Model of the NeonBrush file server's deferred e-mail delivery queue     *)
(* (backend/src/emailService.ts) and of the HTTP routes of the server that *)
(* drive it, and of the origin alias registry of the server               *)
(* (getOriginAlias) with the upload route that registers the origins.      *)
(*                                                                         *)
(* Node.js runs every callback to completion, so one action of the model   *)
(* is one synchronous run of code: from the start of a callback (or the    *)
(* resumption after an await) to the next await or to its end.             *)
(***************************************************************************)
EXTENDS Integers, Sequences, FiniteSets, TLC

(***************************************************************************)
(* Bounds of the model.                                                    *)
(***************************************************************************)
MaxJobs == 2            \* jobs ever enqueued in one behaviour
MaxTicks == 2           \* clock readings: 0 .. MaxTicks half days
MaxInflight == 3        \* upload requests between filename callback and handler

(***************************************************************************)
(* Program constants.                                                      *)
(***************************************************************************)
MaxRetries == 3                         \* if (job.retryCount >= 3)
DayMs == 24 * 60 * 60 * 1000            \* cleanup age, in milliseconds
HalfDayMs == 12 * 60 * 60 * 1000        \* granularity of the model's clock

Emails == {"", "bad", "a@b.com"}        \* req.body.email
Filenames == {"", "a.png"}              \* req.body.filename
StoredNames == Filenames \ {""}         \* names a file in uploads/ can have
RandVals == {0, 1}                      \* Math.random() suffixes of the model
Refs == 1 .. MaxJobs                    \* identities of the EmailJob objects
NullRef == 0                            \* null, where a job reference is expected
NoJob == [status |-> "none"]            \* heap cell of an object that is garbage
Addresses == {"10.0.0.5", "10.0.0.6", "unknown"}    \* results of getClientIP
Uploaders == {"10.0.0.5"}               \* the client that uploads what is mailed

VARIABLES
    heap,           \* the EmailJob objects, by reference
    emailQueue,     \* EmailService.emailQueue: array of references to jobs
    isProcessing,   \* EmailService.isProcessing
    runs,           \* executions of processQueue suspended at an await
    now,            \* the wall clock, Date.now(), in milliseconds
    files,          \* names of the files present in the uploads directory
    nextRef,        \* reference of the next EmailJob object allocated
    hist,           \* history: per job, attempts started / failed / succeeded
    ret,            \* the response of the request answered by the last step
    originAliases,  \* the Map originAliases: its entries, in insertion order
    nextAliasIndex, \* the counter nextAliasIndex
    uploads,        \* upload requests whose file multer is still storing
    given           \* history: the addresses resolved, in the order of their
                    \* first resolution, each with the aliases returned for it

aliasVars == <<originAliases, nextAliasIndex, uploads, given>>

vars == <<heap, emailQueue, isProcessing, runs, now, files, nextRef, hist, ret,
          originAliases, nextAliasIndex, uploads, given>>

(***************************************************************************)
(* Pure helpers.                                                           *)
(***************************************************************************)
RECURSIVE SelectSeqBy(_, _)
\* Array.prototype.filter, the predicate given as the set of elements it keeps
SelectSeqBy(s, keep) ==
    IF s = <<>> THEN <<>>
    ELSE IF Head(s) \in keep THEN <<Head(s)>> \o SelectSeqBy(Tail(s), keep)
         ELSE SelectSeqBy(Tail(s), keep)

Range(s) == {s[i] : i \in DOMAIN s}

RemoveAt(s, i) == [k \in 1 .. (Len(s) - 1) |-> IF k < i THEN s[k] ELSE s[k + 1]]

(***************************************************************************)
(* The origin alias registry.  A Map is the sequence of its entries in     *)
(* insertion order, at most one entry per key.                             *)
(***************************************************************************)
\* `H${nextAliasIndex}`
AliasName(index) == <<"H", index>>

\* Map.prototype.has
MapHas(m, key) == \E i \in DOMAIN m : m[i].ip = key

\* Map.prototype.get of a key the map has
MapGet(m, key) == m[CHOOSE i \in DOMAIN m : m[i].ip = key].alias

\* Map.prototype.set: a new key is appended, a known key keeps its place
MapSet(m, key, value) ==
    IF MapHas(m, key)
    THEN [i \in DOMAIN m |-> IF m[i].ip = key THEN [ip |-> key, alias |-> value]
                                              ELSE m[i]]
    ELSE Append(m, [ip |-> key, alias |-> value])

\* a bug: the last entry is left out of the enumeration
MapEntries_WithoutLast(m) ==
    [i \in 1 .. (Len(m) - 1) |-> [ip |-> m[i].ip, alias |-> m[i].alias]]

\* Array.from(originAliases.entries()).map(([ip, alias]) => ({ ip, alias }))
MapEntries(m) == [i \in DOMAIN m |-> [ip |-> m[i].ip, alias |-> m[i].alias]]

\* a bug: the alias is numbered one behind the counter
GetOriginAlias_FromZero(m, index, ipAddress) ==
    IF ~MapHas(m, ipAddress)
    THEN LET m2 == MapSet(m, ipAddress, AliasName(index - 1))
         IN  [map |-> m2, next |-> index + 1, alias |-> MapGet(m2, ipAddress)]
    ELSE [map |-> m, next |-> index, alias |-> MapGet(m, ipAddress)]

\* a bug: the counter is not advanced
GetOriginAlias_NoIncrement(m, index, ipAddress) ==
    IF ~MapHas(m, ipAddress)
    THEN LET m2 == MapSet(m, ipAddress, AliasName(index))
         IN  [map |-> m2, next |-> index, alias |-> MapGet(m2, ipAddress)]
    ELSE [map |-> m, next |-> index, alias |-> MapGet(m, ipAddress)]

\* a bug: the counter is advanced by every call
GetOriginAlias_CountsCalls(m, index, ipAddress) ==
    IF ~MapHas(m, ipAddress)
    THEN LET m2 == MapSet(m, ipAddress, AliasName(index))
         IN  [map |-> m2, next |-> index + 1, alias |-> MapGet(m2, ipAddress)]
    ELSE [map |-> m, next |-> index + 1, alias |-> MapGet(m, ipAddress)]

\* a bug: no look-up, every call allocates
GetOriginAlias_AlwaysNew(m, index, ipAddress) ==
    LET m2 == MapSet(m, ipAddress, AliasName(index))
    IN  [map |-> m2, next |-> index + 1, alias |-> MapGet(m2, ipAddress)]

\* the history after a call for ipAddress has returned one of aliases
Noted(g, ipAddress, aliases) ==
    IF \E n \in DOMAIN g : g[n].ip = ipAddress
    THEN [n \in DOMAIN g |->
              IF g[n].ip = ipAddress
              THEN [ip |-> ipAddress, aliases |-> g[n].aliases \cup aliases]
              ELSE g[n]]
    ELSE Append(g, [ip |-> ipAddress, aliases |-> aliases])

\* getOriginAlias: the alias returned, with the map and the counter it leaves
GetOriginAlias(m, index, ipAddress) ==
    IF ~MapHas(m, ipAddress)
    THEN LET m2 == MapSet(m, ipAddress, AliasName(index))
         IN  [map |-> m2, next |-> index + 1, alias |-> MapGet(m2, ipAddress)]
    ELSE [map |-> m, next |-> index, alias |-> MapGet(m, ipAddress)]

\* `email_${Date.now()}_${Math.random().toString(36).substr(2, 9)}`
MakeJobId(t, rnd) == [t |-> t, r |-> rnd]

\* path.join(uploadsDir, filename)
JoinUploads(filename) == <<"uploads", filename>>

\* fs.existsSync(filePath) for a path below the uploads directory
ExistsSync(fs, filePath) == filePath[2] \in fs

\* /^[^\s@]+@[^\s@]+\.[^\s@]+$/.test(email), on the addresses of the model
EmailRegexTest(email) == email \in {"a@b.com"}

ZeroHist == [att |-> 0, fail |-> 0, ok |-> 0]

(***************************************************************************)
(* EmailService.queueEmail                                                 *)
(***************************************************************************)
\* the emailJob object literal
NewJob(email, filename, filePath, t, rnd) ==
    [id |-> MakeJobId(t, rnd), email |-> email, filename |-> filename,
     filePath |-> filePath, timestamp |-> t,
     status |-> "pending", retryCount |-> 0]

\* this.emailQueue.push(emailJob)
QueuePush(q, r) == Append(q, r)

(***************************************************************************)
(* EmailService.getJobStatus                                               *)
(***************************************************************************)
\* a bug: the ids are compared by their timestamp part alone
GetJobStatus_ByTime(q, h, jobId) ==
    IF \E i \in DOMAIN q : h[q[i]].id.t = jobId.t
    THEN q[CHOOSE i \in DOMAIN q :
              /\ h[q[i]].id.t = jobId.t
              /\ \A k \in DOMAIN q : h[q[k]].id.t = jobId.t => i <= k]
    ELSE NullRef

\* this.emailQueue.find(job => job.id === jobId) || null
GetJobStatus(q, h, jobId) ==
    IF \E i \in DOMAIN q : h[q[i]].id = jobId
    THEN q[CHOOSE i \in DOMAIN q :
              /\ h[q[i]].id = jobId
              /\ \A k \in DOMAIN q : h[q[k]].id = jobId => i <= k]
    ELSE NullRef

(***************************************************************************)
(* EmailService.startQueueProcessor and processQueue, piece by piece       *)
(***************************************************************************)
\* a bug: the run-flag is not consulted
TimerGuard_NoFlag(processing, q) == Len(q) > 0

\* if (!this.isProcessing && this.emailQueue.length > 0)
TimerGuard(processing, q) == ~processing /\ Len(q) > 0

\* a bug: the filter keeps every job that was not delivered
PendingJobs_AllUnsent(q, h) ==
    SelectSeqBy(q, {r \in Range(q) : h[r].status \in {"pending", "failed"}})

\* a bug: only the head of the queue is ever taken
PendingJobs_HeadOnly(q, h) ==
    IF q # <<>> /\ h[Head(q)].status = "pending" THEN <<Head(q)>> ELSE <<>>

\* a bug: the filter drops only the jobs that have failed
PendingJobs_NotFailed(q, h) ==
    SelectSeqBy(q, {r \in Range(q) : h[r].status # "failed"})

\* a bug: the pending jobs are taken newest first
PendingJobs_NewestFirst(q, h) ==
    LET pending == SelectSeqBy(q, {r \in Range(q) : h[r].status = "pending"})
    IN  [k \in DOMAIN pending |-> pending[Len(pending) + 1 - k]]

\* this.emailQueue.filter(job => job.status === 'pending')
PendingJobs(q, h) == SelectSeqBy(q, {r \in Range(q) : h[r].status = "pending"})

\* a bug: the status is not set before the attempt
ClaimJob_Skip(job) == job

\* a bug: claiming a job loses its recipient
ClaimJob_ClearsRecipient(job) == [job EXCEPT !.status = "sending", !.email = ""]

\* job.status = 'sending'
ClaimJob(job) == [job EXCEPT !.status = "sending"]

\* a bug: a delivery resets the retry counter
AfterSuccess_ResetRetries(job) == [job EXCEPT !.status = "sent", !.retryCount = 0]

\* a bug: a delivery is not recorded in the status
AfterSuccess_LeavesSending(job) == job

\* job.status = 'sent'
AfterSuccess(job) == [job EXCEPT !.status = "sent"]

\* a bug: > where the code has >=
AfterFailure_OffByOne(job) ==
    LET rc == job.retryCount + 1
    IN  [job EXCEPT !.retryCount = rc,
                    !.status = IF rc > MaxRetries THEN "failed" ELSE "pending"]

\* a bug: the retry limit is never applied
AfterFailure_StaysPending(job) ==
    [job EXCEPT !.retryCount = @ + 1, !.status = "pending"]

\* the catch block: job.retryCount++, then failed or pending
AfterFailure(job) ==
    LET rc == job.retryCount + 1
    IN  [job EXCEPT !.retryCount = rc,
                    !.status = IF rc >= MaxRetries THEN "failed" ELSE "pending"]

\* a bug: a failed job is retried at once, in the same cycle
NextPos_RetryNow(pos, outcome) == IF outcome = "error" THEN pos ELSE pos + 1

\* a bug: a failure leaves the loop, the rest of the batch is not attempted
NextPos_AbortBatch(pos, outcome) ==
    IF outcome = "error" THEN pos + MaxJobs + 1 ELSE pos + 1

\* for (const job of pendingJobs): the next element, whatever the outcome was
NextPos(pos, outcome) == pos + 1

\* a bug: the cleanup filters the cycle's pendingJobs
CleanupTarget_Batch(q, batch) == batch

\* the array the cleanup filters: this.emailQueue as it is when the loop is over
CleanupTarget(q, batch) == q

\* a bug: the cleanup also drops the jobs that are done
Cleanup_DropsSent(q, h, t) ==
    LET cutoffTime == t - DayMs
    IN  SelectSeqBy(q, {r \in Range(q) :
                           h[r].timestamp > cutoffTime /\ h[r].status # "sent"})

\* this.emailQueue.filter(job => job.timestamp > cutoffTime)
Cleanup(q, h, t) ==
    LET cutoffTime == t - DayMs
    IN  SelectSeqBy(q, {r \in Range(q) : h[r].timestamp > cutoffTime})

\* a bug: the file is not looked for
SendEmailStart_IgnoreMissing(fs, job) == "transport"

\* sendEmail up to its first await: a missing file throws at once (the promise
\* is rejected), otherwise the transport (or the simulated delay) is awaited
SendEmailStart(fs, job) ==
    IF ~ExistsSync(fs, job.filePath) THEN "rejected" ELSE "transport"

\* the outcomes the awaited sendEmail can report: the rejection already
\* decided, or what transporter.sendMail reports (the simulated delivery of
\* an unconfigured server always reports "ok", one of the two)
Outcomes(await) ==
    IF await = "rejected" THEN {"error"} ELSE {"ok", "error"}

\* a rejected promise is settled by a microtask: nothing else runs before it
NoMicrotask == \A i \in DOMAIN runs : runs[i].await # "rejected"

\* the references a suspended processQueue still holds in pendingJobs
Held(rs) == UNION {Range(rs[i].batch) : i \in DOMAIN rs}

\* objects reachable neither from the queue nor from a pendingJobs are garbage
Collect(h, q, rs) ==
    [r \in Refs |-> IF r \in Range(q) \cup Held(rs) THEN h[r] ELSE NoJob]

CollectHist(hs, q, rs) ==
    [r \in Refs |-> IF r \in Range(q) \cup Held(rs) THEN hs[r] ELSE ZeroHist]

(***************************************************************************)
(* The state after construction: an empty queue, the timer armed.          *)
(***************************************************************************)
NoRet == [op |-> "none"]

ClockValues == {k * HalfDayMs : k \in 0 .. MaxTicks}

JobIds == {MakeJobId(t, rnd) : t \in ClockValues, rnd \in RandVals}

Init ==
    /\ heap = [r \in Refs |-> NoJob]
    /\ emailQueue = <<>>
    /\ isProcessing = FALSE
    /\ runs = <<>>
    /\ now = 0
    /\ files = {}
    /\ originAliases = <<>>
    /\ nextAliasIndex = 1
    /\ uploads = <<>>
    /\ given = <<>>
    /\ nextRef = 1
    /\ hist = [r \in Refs |-> ZeroHist]
    /\ ret = NoRet

(***************************************************************************)
(* processQueue from the head of its loop, at element p of pendingJobs:    *)
(* either the next job is claimed and its sendEmail is awaited, or the     *)
(* loop is over, the old jobs are cleaned up and the flag is cleared.      *)
(* rs, h and hs are the runs, heap and history as the caller left them;    *)
(* proc is the value of isProcessing while the loop goes on.  A run keeps, *)
(* for the record, the jobs it attempted (log) and the reference that was  *)
(* next when it started (since): the jobs from there on were enqueued      *)
(* while it ran.                                                           *)
(***************************************************************************)
Proceed(i, rs, h, hs, p, proc) ==
    LET run == rs[i] IN
    IF p > Len(run.batch)
    THEN LET q2 == Cleanup(CleanupTarget(emailQueue, run.batch), h, now)
             rs2 == RemoveAt(rs, i)
         IN  /\ emailQueue' = q2
             /\ runs' = rs2
             /\ heap' = Collect(h, q2, rs2)
             /\ hist' = CollectHist(hs, q2, rs2)
             /\ isProcessing' = FALSE
    ELSE LET r == run.batch[p]
         IN  /\ heap' = [h EXCEPT ![r] = ClaimJob(h[r])]
             /\ runs' = [rs EXCEPT ![i] =
                            [batch |-> run.batch, pos |-> p,
                             await |-> SendEmailStart(files, h[r]),
                             log |-> Append(run.log, r),
                             since |-> run.since]]
             /\ hist' = [hs EXCEPT ![r].att = @ + 1]
             /\ emailQueue' = emailQueue
             /\ isProcessing' = proc

(***************************************************************************)
(* The setInterval callback: starts processQueue unless one is running.    *)
(***************************************************************************)
TimerTick ==
    /\ NoMicrotask
    /\ TimerGuard(isProcessing, emailQueue)
    /\ LET run == [batch |-> PendingJobs(emailQueue, heap), pos |-> 0,
                   await |-> "none", log |-> <<>>, since |-> nextRef]
           rs == Append(runs, run)
       IN  Proceed(Len(rs), rs, heap, hist, 1, TRUE)
    /\ ret' = NoRet
    /\ UNCHANGED <<now, files, nextRef>>
    /\ UNCHANGED aliasVars

(***************************************************************************)
(* processQueue resumes after `await this.sendEmail(job)`: the outcome is  *)
(* recorded and the loop goes on.                                          *)
(***************************************************************************)
Resume(i, outcome) ==
    /\ i \in DOMAIN runs
    /\ runs[i].await = "rejected" \/ NoMicrotask
    /\ outcome \in Outcomes(runs[i].await)
    /\ LET r == runs[i].batch[runs[i].pos]
           h2 == [heap EXCEPT ![r] = IF outcome = "ok" THEN AfterSuccess(@)
                                                         ELSE AfterFailure(@)]
           hs2 == IF outcome = "ok" THEN [hist EXCEPT ![r].ok = @ + 1]
                                    ELSE [hist EXCEPT ![r].fail = @ + 1]
       IN  Proceed(i, runs, h2, hs2, NextPos(runs[i].pos, outcome), isProcessing)
    /\ ret' = NoRet
    /\ UNCHANGED <<now, files, nextRef>>
    /\ UNCHANGED aliasVars

(***************************************************************************)
(* POST /api/email/send                                                    *)
(***************************************************************************)
\* a bug: only the address is required
RequiredMissing_EmailOnly(email, filename) == email = ""

\* if (!email || !filename)
RequiredMissing(email, filename) == email = "" \/ filename = ""

PostEmailSend(email, filename) ==
    /\ NoMicrotask
    /\ LET filePath == JoinUploads(filename) IN
       IF RequiredMissing(email, filename)
       THEN /\ ret' = [op |-> "send", code |-> 400,
                       error |-> "Email and filename are required"]
            /\ UNCHANGED <<heap, emailQueue, nextRef>>
       ELSE IF ~EmailRegexTest(email)
       THEN /\ ret' = [op |-> "send", code |-> 400,
                       error |-> "Invalid email format"]
            /\ UNCHANGED <<heap, emailQueue, nextRef>>
       ELSE IF ~ExistsSync(files, filePath)
       THEN /\ ret' = [op |-> "send", code |-> 404, error |-> "File not found"]
            /\ UNCHANGED <<heap, emailQueue, nextRef>>
       ELSE /\ nextRef <= MaxJobs
            /\ \E rnd \in RandVals :
                  /\ heap' = [heap EXCEPT ![nextRef] =
                                  NewJob(email, filename, filePath, now, rnd)]
                  /\ ret' = [op |-> "send", code |-> 200,
                             jobId |-> MakeJobId(now, rnd), job |-> nextRef]
            /\ emailQueue' = QueuePush(emailQueue, nextRef)
            /\ nextRef' = nextRef + 1
    /\ UNCHANGED <<isProcessing, runs, now, files, hist>>
    /\ UNCHANGED aliasVars

(***************************************************************************)
(* GET /api/email/status/:jobId                                            *)
(***************************************************************************)
\* The ids asked for: each id of a queued job and, for the ids that find()
\* matches with no job (never issued, or of a job cleaned up), one of them.
RequestedIds ==
    LET present == {heap[r].id : r \in Range(emailQueue)}
        absent == JobIds \ present
    IN  present \cup (IF absent = {} THEN {} ELSE {CHOOSE id \in absent : TRUE})

GetEmailStatus(jobId) ==
    /\ NoMicrotask
    /\ LET job == GetJobStatus(emailQueue, heap, jobId) IN
       ret' = IF job = NullRef
              THEN [op |-> "status", code |-> 404, jobId |-> jobId]
              ELSE [op |-> "status", code |-> 200, jobId |-> jobId, job |-> job,
                    body |-> [id |-> heap[job].id, email |-> heap[job].email,
                              filename |-> heap[job].filename,
                              status |-> heap[job].status,
                              timestamp |-> heap[job].timestamp,
                              retryCount |-> heap[job].retryCount]]
    /\ UNCHANGED <<heap, emailQueue, isProcessing, runs, now, files,
                   nextRef, hist>>
    /\ UNCHANGED aliasVars

(***************************************************************************)
(* POST /api/upload and DELETE /api/files/:filename.  UploadFile is an      *)
(* upload that no other callback interleaves with: multer's filename       *)
(* callback resolves the alias of the client, the file is stored, and the  *)
(* route handler resolves the alias again.                                 *)
(***************************************************************************)
UploadFile(ip, name) ==
    /\ NoMicrotask
    /\ uploads = <<>>
    /\ name \notin files
    /\ LET first == GetOriginAlias(originAliases, nextAliasIndex, ip)
           second == GetOriginAlias(first.map, first.next, ip)
       IN  /\ originAliases' = second.map
           /\ nextAliasIndex' = second.next
           /\ given' = Noted(given, ip, {first.alias, second.alias})
    /\ files' = files \cup {name}
    /\ ret' = NoRet
    /\ UNCHANGED <<heap, emailQueue, isProcessing, runs, now, nextRef, hist, uploads>>

DeleteFile(name) ==
    /\ NoMicrotask
    /\ ExistsSync(files, JoinUploads(name))
    /\ files' = files \ {name}
    /\ ret' = NoRet
    /\ UNCHANGED <<heap, emailQueue, isProcessing, runs, now, nextRef, hist>>
    /\ UNCHANGED aliasVars

(***************************************************************************)
(* Time passes.                                                            *)
(***************************************************************************)
Advance ==
    /\ NoMicrotask
    /\ now + HalfDayMs <= MaxTicks * HalfDayMs
    /\ now' = now + HalfDayMs
    /\ ret' = NoRet
    /\ UNCHANGED <<heap, emailQueue, isProcessing, runs, files, nextRef, hist>>
    /\ UNCHANGED aliasVars

Next ==
    \/ TimerTick
    \/ \E i \in 1 .. MaxJobs, outcome \in {"ok", "error"} : Resume(i, outcome)
    \/ \E email \in Emails, filename \in Filenames : PostEmailSend(email, filename)
    \/ \E jobId \in RequestedIds : GetEmailStatus(jobId)
    \/ \E ip \in Uploaders, name \in StoredNames : UploadFile(ip, name)
    \/ \E name \in StoredNames : DeleteFile(name)
    \/ Advance

Spec == Init /\ [][Next]_vars

(***************************************************************************)
(* EmailService.getQueueStatus and GET /api/email/queue                    *)
(***************************************************************************)
\* this.emailQueue.filter(job => job.status === status).length
CountStatus(q, h, status) ==
    Len(SelectSeqBy(q, {r \in Range(q) : h[r].status = status}))

\* a bug: the jobs being sent are counted as pending
GetQueueStatus_SendingAsPending(q, h) ==
    [total |-> Len(q),
     pending |-> CountStatus(q, h, "pending") + CountStatus(q, h, "sending"),
     sending |-> CountStatus(q, h, "sending"),
     sent |-> CountStatus(q, h, "sent"),
     failed |-> CountStatus(q, h, "failed")]

GetQueueStatus(q, h) ==
    [total |-> Len(q),
     pending |-> CountStatus(q, h, "pending"),
     sending |-> CountStatus(q, h, "sending"),
     sent |-> CountStatus(q, h, "sent"),
     failed |-> CountStatus(q, h, "failed")]

GetEmailQueue ==
    /\ NoMicrotask
    /\ ret' = [op |-> "queue", code |-> 200,
               body |-> GetQueueStatus(emailQueue, heap)]
    /\ UNCHANGED <<heap, emailQueue, isProcessing, runs, now, files,
                   nextRef, hist>>
    /\ UNCHANGED aliasVars

\* the server with its three e-mail routes
NextQueue == Next \/ GetEmailQueue

QueueSpec == Init /\ [][NextQueue]_vars

(***************************************************************************)
(* The process is killed and started again: `new EmailService()` begins    *)
(* with the field initialisers, an empty emailQueue and a cleared flag;    *)
(* the suspended executions are gone with the old process, and so are the  *)
(* alias map, its counter and the requests in flight.  The files and the   *)
(* clock are not the process's.                                            *)
(***************************************************************************)
Restart ==
    /\ heap' = [r \in Refs |-> NoJob]
    /\ emailQueue' = <<>>
    /\ isProcessing' = FALSE
    /\ runs' = <<>>
    /\ hist' = [r \in Refs |-> ZeroHist]
    /\ ret' = NoRet
    /\ originAliases' = <<>>
    /\ nextAliasIndex' = 1
    /\ uploads' = <<>>
    /\ given' = <<>>
    /\ UNCHANGED <<now, files, nextRef>>

NextCrash == Next \/ Restart

CrashSpec == Init /\ [][NextCrash]_vars

(***************************************************************************)
(* The server without SMTP_USER or SMTP_PASS: sendEmail simulates the      *)
(* delivery, which cannot fail; the only failure left is the missing file. *)
(***************************************************************************)
\* if (!process.env.SMTP_USER || !process.env.SMTP_PASS) { ...; return; }
SimulatedOutcome(await) == IF await = "rejected" THEN "error" ELSE "ok"

ResumeSimulated(i) ==
    /\ i \in DOMAIN runs
    /\ Resume(i, SimulatedOutcome(runs[i].await))

NextSimulated ==
    \/ TimerTick
    \/ \E i \in 1 .. MaxJobs : ResumeSimulated(i)
    \/ \E email \in Emails, filename \in Filenames : PostEmailSend(email, filename)
    \/ \E jobId \in RequestedIds : GetEmailStatus(jobId)
    \/ \E ip \in Uploaders, name \in StoredNames : UploadFile(ip, name)
    \/ \E name \in StoredNames : DeleteFile(name)
    \/ Advance

SimulatedSpec == Init /\ [][NextSimulated]_vars

(***************************************************************************)
(* What the scheduling guarantees: the interval timer keeps firing and a   *)
(* rejected promise is settled by its microtask.  Nothing in the code      *)
(* makes the awaited transport report.                                     *)
(***************************************************************************)
ResumeRejected ==
    \E i \in DOMAIN runs : runs[i].await = "rejected" /\ Resume(i, "error")

TimerFairSpec == Spec /\ WF_vars(TimerTick) /\ WF_vars(ResumeRejected)

(***************************************************************************)
(* A transport that reports: every awaited sendEmail settles one way or    *)
(* the other.  The requests are those that bear on the progress of a job:  *)
(* the accepted enqueues, the uploads and the deletions.                   *)
(***************************************************************************)
ResumeAny ==
    \E i \in 1 .. MaxJobs, outcome \in {"ok", "error"} : Resume(i, outcome)

\* an enqueue that is accepted; the random suffix of the id, which the
\* progress of a job does not depend on, is fixed
EnqueueAccepted ==
    \E email \in Emails, filename \in Filenames :
        /\ PostEmailSend(email, filename)
        /\ ret'.code = 200
        /\ ret'.jobId = MakeJobId(now, 0)

NextFair ==
    \/ TimerTick
    \/ ResumeAny
    \/ EnqueueAccepted
    \/ \E ip \in Uploaders, name \in StoredNames : UploadFile(ip, name)
    \/ \E name \in StoredNames : DeleteFile(name)
    \/ Advance

FairSpec == Init /\ [][NextFair]_vars /\ WF_vars(TimerTick) /\ WF_vars(ResumeAny)

(***************************************************************************)
(* The upload route as it runs among other requests.  multer calls the     *)
(* filename callback of the storage, which resolves the alias of the       *)
(* client for the prefix of the file name; the file is then written, and   *)
(* other callbacks run meanwhile; the route handler runs when the file is  *)
(* stored, resolves the alias again and answers with it.  (The metadata    *)
(* file the handler writes is not part of the model.)                      *)
(***************************************************************************)
UploadStart(ip, name) ==
    /\ NoMicrotask
    /\ Len(uploads) < MaxInflight
    /\ LET got == GetOriginAlias(originAliases, nextAliasIndex, ip)
       IN  /\ originAliases' = got.map
           /\ nextAliasIndex' = got.next
           /\ given' = Noted(given, ip, {got.alias})
           /\ uploads' = Append(uploads, [ip |-> ip, prefix |-> got.alias,
                                          name |-> name])
    /\ ret' = NoRet
    /\ UNCHANGED <<heap, emailQueue, isProcessing, runs, now, files, nextRef, hist>>

UploadFinish(i) ==
    /\ NoMicrotask
    /\ i \in DOMAIN uploads
    /\ LET req == uploads[i]
           got == GetOriginAlias(originAliases, nextAliasIndex, req.ip)
       IN  /\ originAliases' = got.map
           /\ nextAliasIndex' = got.next
           /\ given' = Noted(given, req.ip, {got.alias})
           /\ files' = files \cup {req.name}
           /\ ret' = [op |-> "upload", code |-> 200, ip |-> req.ip,
                      prefix |-> req.prefix, origin |-> got.alias]
    /\ uploads' = RemoveAt(uploads, i)
    /\ UNCHANGED <<heap, emailQueue, isProcessing, runs, now, nextRef, hist>>

\* if (!req.file): no file in the request, no alias is resolved
UploadNoFile ==
    /\ NoMicrotask
    /\ ret' = [op |-> "upload", code |-> 400, error |-> "No file uploaded"]
    /\ UNCHANGED <<heap, emailQueue, isProcessing, runs, now, files, nextRef, hist>>
    /\ UNCHANGED aliasVars

(***************************************************************************)
(* GET /api/health: the enumeration of the registered origins.             *)
(***************************************************************************)
GetHealth ==
    /\ NoMicrotask
    /\ ret' = [op |-> "health", code |-> 200,
               registeredOrigins |-> MapEntries(originAliases)]
    /\ UNCHANGED <<heap, emailQueue, isProcessing, runs, now, files, nextRef, hist>>
    /\ UNCHANGED aliasVars

\* the requests that reach the alias registry
NextAlias ==
    \/ \E ip \in Addresses, name \in StoredNames : UploadStart(ip, name)
    \/ \E i \in 1 .. MaxInflight : UploadFinish(i)
    \/ UploadNoFile
    \/ GetHealth

AliasSpec == Init /\ [][NextAlias]_vars

(***************************************************************************)
(* Vocabulary of the properties.                                           *)
(***************************************************************************)
Queued == Range(emailQueue)

Terminal(status) == status \in {"sent", "failed"}

\* r is queued before and after the step
Stays(r) == r \in Range(emailQueue) /\ r \in Range(emailQueue')

\* attempts on r started and not yet reported
Inflight(r) == hist[r].att - hist[r].fail - hist[r].ok

NoDuplicates(s) == \A a, b \in DOMAIN s : s[a] = s[b] => a = b

(***************************************************************************)
(* C1. A job whose every delivery attempt failed reads, once no cycle      *)
(* that attempts it is running: pending with retryCount 0 before its first *)
(* attempt, pending with retryCount k after the k-th cycle that attempted  *)
(* it (k = 1, 2), failed with retryCount 3 after the third.  The state     *)
(* read is the one getJobStatus hands out for the job (the job object      *)
(* itself), for as long as the job is queued.                              *)
(***************************************************************************)
C1_FailingJobLifecycle ==
    \A r \in Queued :
        (hist[r].ok = 0 /\ r \notin Held(runs)) =>
            /\ hist[r].fail = hist[r].att
            /\ hist[r].att = 0 => heap[r].status = "pending" /\ heap[r].retryCount = 0
            /\ hist[r].att \in {1, 2} =>
                   heap[r].status = "pending" /\ heap[r].retryCount = hist[r].att
            /\ hist[r].att = 3 => heap[r].status = "failed" /\ heap[r].retryCount = 3
            /\ hist[r].att <= 3

C1_Witness ==
    \E r \in Queued :
        /\ hist[r].ok = 0 /\ hist[r].att = 3 /\ r \notin Held(runs)
        /\ heap[r].status = "failed"
        /\ GetJobStatus(emailQueue, heap, heap[r].id) = r

(***************************************************************************)
(* C2. Every queued job with retryCount >= 3 has status failed.            *)
(***************************************************************************)
C2_RetryLimitIsTerminal ==
    \A r \in Queued : heap[r].retryCount >= MaxRetries => heap[r].status = "failed"

C2_Witness == \E r \in Queued : heap[r].retryCount >= MaxRetries

(***************************************************************************)
(* C3. In every step retryCount of every job does not decrease, and a job  *)
(* that is sent or failed keeps its status and its retryCount.             *)
(***************************************************************************)
C3_Step ==
    \A r \in Refs :
        Stays(r) =>
            /\ heap'[r].retryCount >= heap[r].retryCount
            /\ Terminal(heap[r].status) =>
                   /\ heap'[r].status = heap[r].status
                   /\ heap'[r].retryCount = heap[r].retryCount

C3_MonotonicRetry == [][C3_Step]_vars

\* a later cycle is at work while a job that went through retries is terminal
C3_Witness ==
    /\ runs # <<>>
    /\ \E r \in Queued : Terminal(heap[r].status) /\ heap[r].retryCount > 0

(***************************************************************************)
(* C4. The only status changes of a job are pending -> sending,            *)
(* sending -> sent, sending -> pending and sending -> failed.              *)
(***************************************************************************)
AllowedStatusChanges ==
    {<<"pending", "sending">>, <<"sending", "sent">>,
     <<"sending", "pending">>, <<"sending", "failed">>}

C4_Step ==
    \A r \in Refs :
        (Stays(r) /\ heap'[r].status # heap[r].status) =>
            <<heap[r].status, heap'[r].status>> \in AllowedStatusChanges

C4_StatusChanges == [][C4_Step]_vars

\* one job went all the way to failed, another was delivered after a retry
C4_Witness ==
    \E r1, r2 \in Queued :
        /\ heap[r1].status = "failed"
        /\ heap[r2].status = "sent" /\ heap[r2].retryCount > 0

(***************************************************************************)
(* C5. At most one execution of processQueue is active at any time.        *)
(***************************************************************************)
C5_NoOverlappingCycles == Len(runs) <= 1

\* a cycle is suspended in a delivery while the queue holds a pending job: the
\* timer callback finds work and is held back by the flag alone
C5_Witness ==
    /\ Len(runs) = 1
    /\ runs[1].await = "transport"
    /\ PendingJobs(emailQueue, heap) # <<>>
    /\ now > heap[runs[1].batch[1]].timestamp

(***************************************************************************)
(* C6. For every job at most one delivery attempt is in flight.            *)
(***************************************************************************)
C6_OneInflightPerJob ==
    \A r \in Refs :
        /\ Inflight(r) \in {0, 1}
        /\ Cardinality({i \in DOMAIN runs : runs[i].batch[runs[i].pos] = r}) <= 1

\* a second attempt on a job is in flight, the first having reported
C6_Witness ==
    \E r \in Queued :
        heap[r].status = "sending" /\ hist[r].att = 2 /\ Inflight(r) = 1

(***************************************************************************)
(* C7, as stated: when the first transport attempt of a cycle is in        *)
(* flight, every job the cycle selected is in status sending.              *)
(***************************************************************************)
C7_Original ==
    \A i \in DOMAIN runs :
        runs[i].pos = 1 =>
            \A k \in DOMAIN runs[i].batch : heap[runs[i].batch[k]].status = "sending"

(***************************************************************************)
(* C7, amended: a cycle claims its jobs one at a time, each in the step    *)
(* that starts its attempt.  While an attempt is in flight the job         *)
(* attempted is sending, the jobs of the batch after it are still pending  *)
(* and the jobs before it are no longer sending.                           *)
(***************************************************************************)
C7_ClaimedOneByOne ==
    \A i \in DOMAIN runs :
        \A k \in DOMAIN runs[i].batch :
            LET status == heap[runs[i].batch[k]].status IN
            /\ k = runs[i].pos => status = "sending"
            /\ k > runs[i].pos => status = "pending"
            /\ k < runs[i].pos => status # "sending"

C7_Witness ==
    \E i \in DOMAIN runs :
        /\ Len(runs[i].batch) >= 2
        /\ runs[i].pos = 1
        /\ heap[runs[i].batch[2]].status = "pending"

(***************************************************************************)
(* C8. A reported success takes the job from sending to sent and leaves    *)
(* its retryCount alone; a sent job is not changed by any later step.      *)
(***************************************************************************)
C8_Step ==
    \A r \in Refs :
        /\ hist'[r].ok = hist[r].ok + 1 =>
               /\ heap[r].status = "sending"
               /\ heap'[r].status = "sent"
               /\ heap'[r].retryCount = heap[r].retryCount
        /\ (Stays(r) /\ heap[r].status = "sent") => heap'[r] = heap[r]

C8_SuccessIsSent == [][C8_Step]_vars

\* a job delivered on a retry, queried afterwards
C8_Witness ==
    \E r \in Queued :
        /\ heap[r].status = "sent" /\ heap[r].retryCount > 0 /\ hist[r].ok = 1
        /\ ret.op = "status" /\ ret.code = 200 /\ ret.job = r

(***************************************************************************)
(* C9. A reported failure, of a missing file as of the transport, adds     *)
(* exactly 1 to retryCount; below 3 the job is pending again, so the next  *)
(* cycle's filter selects it, and no cycle attempts a job twice.           *)
(***************************************************************************)
C9_Step ==
    \A r \in Refs :
        hist'[r].fail = hist[r].fail + 1 =>
            /\ heap'[r].retryCount = heap[r].retryCount + 1
            /\ heap'[r].retryCount < MaxRetries =>
                   /\ heap'[r].status = "pending"
                   /\ r \in Range(emailQueue') =>
                          r \in Range(PendingJobs(emailQueue', heap'))

C9_FailureRetriesLater ==
    /\ [][C9_Step]_vars
    /\ [](\A i \in DOMAIN runs : NoDuplicates(runs[i].log))

\* a job that failed once is in its second attempt, in a cycle of its own
C9_Witness ==
    \E r \in Queued, i \in DOMAIN runs :
        /\ hist[r].fail = 1 /\ hist[r].att = 2 /\ heap[r].retryCount = 1
        /\ runs[i].batch[runs[i].pos] = r
        /\ runs[i].log = <<r>>

Young(r) == now - heap[r].timestamp < DayMs

\* the step is a processQueue reaching its cleanup
CleanupStep ==
    /\ TimerTick \/ \E i \in DOMAIN runs, outcome \in {"ok", "error"} : Resume(i, outcome)
    /\ isProcessing' = FALSE

(***************************************************************************)
(* C11, as stated: a job whose enqueue has answered is still in the queue  *)
(* after the process is killed and started again, unless its age has it    *)
(* cleaned up.                                                             *)
(***************************************************************************)
C11_Step == Restart => \A r \in Queued : Young(r) => r \in Range(emailQueue')

C11_EnqueuedSurvivesRestart == [][C11_Step]_vars

(***************************************************************************)
(* C12, as stated: a restart finds every job that was in status sending    *)
(* and has it pending before the first cycle runs.                         *)
(***************************************************************************)
C12_Step ==
    Restart =>
        \A r \in Queued :
            heap[r].status = "sending" =>
                r \in Range(emailQueue') /\ heap'[r].status = "pending"

C12_SendingResetOnRestart == [][C12_Step]_vars

(***************************************************************************)
(* C13. A request to enqueue with an empty address or an empty file name   *)
(* is answered 400 "Email and filename are required" and creates no job:   *)
(* the queue and the jobs are as before.                                   *)
(***************************************************************************)
C13_Step ==
    \A email \in Emails, filename \in Filenames :
        ((email = "" \/ filename = "") /\ PostEmailSend(email, filename)) =>
            /\ ret'.op = "send" /\ ret'.code = 400
            /\ ret'.error = "Email and filename are required"
            /\ emailQueue' = emailQueue
            /\ heap' = heap
            /\ nextRef' = nextRef

C13_EmptyInputRejected == [][C13_Step]_vars

\* the rejection is answered while jobs are queued
C13_Witness ==
    /\ ret.op = "send" /\ ret.code = 400
    /\ ret.error = "Email and filename are required"
    /\ emailQueue # <<>>

(***************************************************************************)
(* C14. The status request answers 404 exactly when no queued job has the  *)
(* id asked for, and otherwise with the current state of a queued job of   *)
(* that id; answering it changes neither the queue nor any job.            *)
(***************************************************************************)
C14_Answer ==
    ret.op = "status" =>
        /\ ret.code \in {200, 404}
        /\ ret.code = 404 <=> ~(\E r \in Queued : heap[r].id = ret.jobId)
        /\ ret.code = 200 =>
               /\ ret.job \in Queued
               /\ heap[ret.job].id = ret.jobId
               /\ ret.body.id = ret.jobId
               /\ ret.body.status = heap[ret.job].status
               /\ ret.body.retryCount = heap[ret.job].retryCount
               /\ ret.body.email = heap[ret.job].email
               /\ ret.body.filename = heap[ret.job].filename
               /\ ret.body.timestamp = heap[ret.job].timestamp

C14_Step ==
    (\E jobId \in JobIds : GetEmailStatus(jobId)) =>
        UNCHANGED <<heap, emailQueue, isProcessing, runs, nextRef, hist>>

C14_StatusIsPureRead == [](C14_Answer) /\ [][C14_Step]_vars

\* find() walks past a job with another id; the job found is being sent
C14_Witness ==
    /\ ret.op = "status" /\ ret.code = 200
    /\ Len(emailQueue) = 2 /\ ret.job = emailQueue[2]
    /\ heap[ret.job].status = "sending"

(***************************************************************************)
(* C15. The summary gives, for each of pending, sending, sent and failed,  *)
(* the number of queue entries whose job has that status, and a total that *)
(* is the sum of the four; when no job has been attempted all of them are  *)
(* counted pending.                                                        *)
(***************************************************************************)
NumberWith(status) ==
    Cardinality({i \in DOMAIN emailQueue : heap[emailQueue[i]].status = status})

C15_SummaryCounts ==
    ret.op = "queue" =>
        /\ ret.code = 200
        /\ ret.body.pending = NumberWith("pending")
        /\ ret.body.sending = NumberWith("sending")
        /\ ret.body.sent = NumberWith("sent")
        /\ ret.body.failed = NumberWith("failed")
        /\ ret.body.total =
               ret.body.pending + ret.body.sending + ret.body.sent + ret.body.failed
        /\ (\A r \in Queued : hist[r].att = 0) =>
               /\ ret.body.pending = Len(emailQueue)
               /\ ret.body.sending = 0 /\ ret.body.sent = 0 /\ ret.body.failed = 0

\* one job delivered, one being sent
C15_Witness ==
    /\ ret.op = "queue"
    /\ ret.body.sent = 1 /\ ret.body.sending = 1 /\ ret.body.total = 2

(***************************************************************************)
(* C16, as stated: the cleanup keeps, in order, exactly the jobs created   *)
(* at or after the cutoff (now minus 24 hours), the job created at the     *)
(* cutoff instant included, and removes the older ones.                    *)
(***************************************************************************)
C16_Step ==
    CleanupStep =>
        emailQueue' =
            SelectSeqBy(emailQueue,
                        {r \in Queued : heap[r].timestamp >= now - DayMs})

C16_CutoffJobKept == [][C16_Step]_vars

(***************************************************************************)
(* C17, as stated: a job enqueued while a cycle is running is in the queue,*)
(* pending with retryCount 0, after the cleanup of that cycle.             *)
(***************************************************************************)
\* the jobs enqueued since run i started
EnqueuedSince(i) == {r \in Queued : runs[i].since <= r /\ r < nextRef}

C17_OriginalStep ==
    \A i \in DOMAIN runs, outcome \in {"ok", "error"} :
        (Resume(i, outcome) /\ isProcessing' = FALSE) =>
            \A r \in EnqueuedSince(i) :
                /\ r \in Range(emailQueue')
                /\ heap'[r].status = "pending" /\ heap'[r].retryCount = 0

C17_Step ==
    \A i \in DOMAIN runs, outcome \in {"ok", "error"} :
        (Resume(i, outcome) /\ isProcessing' = FALSE) =>
            \A r \in EnqueuedSince(i) :
                Young(r) =>
                    /\ r \in Range(emailQueue')
                    /\ heap'[r].status = "pending" /\ heap'[r].retryCount = 0

C18_Step ==
    \A r \in Queued :
        r \notin Range(emailQueue') => (CleanupStep /\ ~Young(r))

C18_LeavesOnlyByCleanup == [][C18_Step]_vars

\* the summary is asked for after a job has been cleaned up
C18_Witness ==
    /\ ret.op = "queue"
    /\ nextRef = 3
    /\ ret.body.total = 1

(***************************************************************************)
(* C19. An attempt on a job whose file is missing is rejected, and the     *)
(* rejection is counted like any failed attempt: retryCount goes up by 1.  *)
(* retryCount is the number of failed attempts, and a job whose three      *)
(* attempts all failed is failed with retryCount 3.  (With the simulated   *)
(* delivery every failed attempt is one on a missing file.)                *)
(***************************************************************************)
\* the step starts an attempt on r
AttemptStarts(r) == hist'[r].att = hist[r].att + 1

\* the step reports a failed attempt on r
AttemptFails(r) == hist'[r].fail = hist[r].fail + 1

C19_Step ==
    \A r \in Refs :
        /\ (AttemptStarts(r) /\ ~ExistsSync(files, heap'[r].filePath)) =>
               \E i \in DOMAIN runs' :
                   /\ runs'[i].pos \in DOMAIN runs'[i].batch
                   /\ runs'[i].batch[runs'[i].pos] = r
                   /\ runs'[i].await = "rejected"
        /\ (\E i \in DOMAIN runs :
                /\ runs[i].await = "rejected"
                /\ runs[i].batch[runs[i].pos] = r) =>
               AttemptFails(r) \/ hist'[r] = ZeroHist
        /\ (AttemptFails(r) /\ Stays(r)) =>
               heap'[r].retryCount = heap[r].retryCount + 1

C19_Counted ==
    \A r \in Queued :
        /\ heap[r].retryCount = hist[r].fail
        /\ hist[r].fail = MaxRetries =>
               heap[r].status = "failed" /\ heap[r].retryCount = MaxRetries

C19_MissingFileCounts == [](C19_Counted) /\ [][C19_Step]_vars

\* three attempts on a deleted file: failed with retryCount 3
C19_Witness ==
    \E r \in Queued :
        /\ ~ExistsSync(files, heap[r].filePath)
        /\ hist[r].att = 3 /\ hist[r].ok = 0
        /\ heap[r].status = "failed" /\ heap[r].retryCount = 3

(***************************************************************************)
(* C20, as stated: an attempt does not last forever.  A job in status      *)
(* sending eventually leaves it, also when the transport never reports,    *)
(* given that the timer keeps firing and rejections are delivered.         *)
(***************************************************************************)
C20_AttemptEnds ==
    \A r \in Refs : (heap[r].status = "sending") ~> (heap[r].status # "sending")

(***************************************************************************)
(* C21, as stated: while a transport attempt is awaited the three requests *)
(* can run; an enqueue is appended as a pending job, the summary counts a  *)
(* job in status sending, and the status request for the id of the job     *)
(* being attempted answers with status sending.                            *)
(***************************************************************************)
\* a processQueue is suspended at the transport
Blocked == \E i \in DOMAIN runs : runs[i].await = "transport"

\* the jobs whose attempt is awaited
Attempted ==
    {runs[i].batch[runs[i].pos] : i \in {k \in DOMAIN runs : runs[k].await = "transport"}}

C21_Open ==
    Blocked =>
        /\ ENABLED GetEmailQueue
        /\ \A jobId \in RequestedIds : ENABLED GetEmailStatus(jobId)
        /\ (nextRef <= MaxJobs /\ ExistsSync(files, JoinUploads("a.png"))) =>
               ENABLED PostEmailSend("a@b.com", "a.png")

C21_Effect ==
    Blocked =>
        /\ \A email \in Emails, filename \in Filenames :
               (PostEmailSend(email, filename) /\ ret'.code = 200) =>
                   /\ emailQueue' = Append(emailQueue, ret'.job)
                   /\ heap'[ret'.job].status = "pending"
                   /\ \A r \in Attempted : heap'[r].status = "sending"
        /\ GetEmailQueue => ret'.body.sending >= 1

C21_Status ==
    \A r \in Attempted :
        GetEmailStatus(heap[r].id) =>
            ret'.code = 200 /\ ret'.body.status = "sending"

C21_StoreNotLocked == [](C21_Open) /\ [][C21_Effect /\ C21_Status]_vars

(***************************************************************************)
(* C22. A failed attempt does not end the cycle: the step that records the *)
(* failure starts the attempt on the next job of the batch or, after the   *)
(* last one, runs the cleanup and clears the run-flag.  With the flag      *)
(* clear and a job queued the timer callback can start a cycle, and a      *)
(* cycle whose attempts all report ends.                                   *)
(***************************************************************************)
C22_Step ==
    \A i \in DOMAIN runs :
        Resume(i, "error") =>
            IF runs[i].pos < Len(runs[i].batch)
            THEN /\ i \in DOMAIN runs'
                 /\ runs'[i].batch = runs[i].batch
                 /\ runs'[i].pos = runs[i].pos + 1
                 /\ AttemptStarts(runs[i].batch[runs[i].pos + 1])
                 /\ isProcessing'
            ELSE CleanupStep /\ runs' = <<>>

C22_NextCycle ==
    (~isProcessing /\ emailQueue # <<>> /\ NoMicrotask) => ENABLED TimerTick

C22_FailureStaysInside ==
    /\ [][C22_Step]_vars
    /\ [](C22_NextCycle)
    /\ (isProcessing ~> ~isProcessing)

\* the first job of the batch failed and is pending again, the second is being sent
C22_Witness ==
    \E i \in DOMAIN runs :
        /\ runs[i].pos = 2
        /\ heap[runs[i].batch[1]].status = "pending"
        /\ heap[runs[i].batch[1]].retryCount >= 1
        /\ heap[runs[i].batch[2]].status = "sending"

(***************************************************************************)
(* Vocabulary of the alias properties.                                     *)
(***************************************************************************)
\* the aliases returned so far for an address
GivenTo(ipAddress) ==
    UNION {given[n].aliases : n \in {k \in DOMAIN given : given[k].ip = ipAddress}}

\* the step resolves the alias of ipAddress
Resolves(ipAddress) ==
    \/ \E name \in StoredNames : UploadStart(ipAddress, name)
    \/ \E i \in DOMAIN uploads : uploads[i].ip = ipAddress /\ UploadFinish(i)

(***************************************************************************)
(* C23. Whatever calls were made, all the calls for one address returned   *)
(* the same alias, and no alias was returned for two addresses.            *)
(***************************************************************************)
C23_IdempotentInjective ==
    /\ \A a \in Addresses : Cardinality(GivenTo(a)) <= 1
    /\ \A a, b \in Addresses : a # b => GivenTo(a) \cap GivenTo(b) = {}

\* a second call for one address has returned while another address is known
C23_Witness ==
    /\ ret.op = "upload" /\ ret.code = 200
    /\ Len(given) >= 2

(***************************************************************************)
(* C24. The N-th address resolved for the first time has the alias H<N>,   *)
(* and no other, whatever calls for known addresses came in between.       *)
(***************************************************************************)
C24_RegistrationOrder ==
    \A n \in DOMAIN given : given[n].aliases = {AliasName(n)}

\* three addresses are registered, and the first has been resolved again
\* (by the handler of one of its requests) since the third came
C24_Witness ==
    /\ Len(given) = 3
    /\ ret.op = "upload" /\ ret.code = 200
    /\ ret.ip = given[1].ip
    /\ \E i \in DOMAIN uploads : uploads[i].ip = given[3].ip

(***************************************************************************)
(* C25. Requests of one address that are in flight together have one      *)
(* alias: the one their file names were given is the one the handlers      *)
(* answer with and the one the map holds, and the counter has advanced by  *)
(* one for each address resolved, not for each request.                    *)
(***************************************************************************)
C25_OneAliasPerAddress ==
    /\ \A i, j \in DOMAIN uploads :
           uploads[i].ip = uploads[j].ip => uploads[i].prefix = uploads[j].prefix
    /\ \A i \in DOMAIN uploads :
           /\ MapHas(originAliases, uploads[i].ip)
           /\ MapGet(originAliases, uploads[i].ip) = uploads[i].prefix
    /\ (ret.op = "upload" /\ ret.code = 200) =>
           /\ ret.origin = ret.prefix
           /\ ret.origin = MapGet(originAliases, ret.ip)
    /\ nextAliasIndex = Len(given) + 1
    /\ Len(originAliases) = Len(given)

\* two requests of a new address in flight with H1, then another address: H2
C25_Witness ==
    /\ Len(uploads) = 3
    /\ uploads[1].ip = uploads[2].ip
    /\ uploads[1].prefix = AliasName(1) /\ uploads[2].prefix = AliasName(1)
    /\ uploads[3].ip # uploads[1].ip
    /\ uploads[3].prefix = AliasName(2)
    /\ nextAliasIndex = 3

(***************************************************************************)
(* C26. Resolving a known address leaves the map and the counter as they   *)
(* are; no step changes or removes an entry of the map; the enumeration    *)
(* answers with the pairs allocated so far, no more and no fewer.          *)
(***************************************************************************)
C26_Step ==
    /\ \A a \in Addresses :
           (MapHas(originAliases, a) /\ Resolves(a)) =>
               UNCHANGED <<originAliases, nextAliasIndex>>
    /\ \A i \in DOMAIN originAliases :
           i \in DOMAIN originAliases' /\ originAliases'[i] = originAliases[i]

C26_Enumeration ==
    ret.op = "health" =>
        /\ Len(ret.registeredOrigins) = Len(given)
        /\ Range(ret.registeredOrigins) =
               {[ip |-> given[n].ip, alias |-> AliasName(n)] : n \in DOMAIN given}

C26_KnownAddressNoEffect == [][C26_Step]_vars /\ [](C26_Enumeration)

\* the enumeration of two origins while a request of a known address is in flight
C26_Witness ==
    /\ ret.op = "health"
    /\ Len(ret.registeredOrigins) = 2
    /\ uploads # <<>>

(***************************************************************************)
(* C27, as stated: no two jobs in the queue have the same id.              *)
(***************************************************************************)
C27_UniqueIds ==
    \A a, b \in Queued : a # b => heap[a].id # heap[b].id

(***************************************************************************)
(* C28. While a job is in the queue its id, recipient, file name, file     *)
(* path and creation timestamp stay as enqueue set them; its status and    *)
(* retryCount change only in steps of processQueue; it enters the queue    *)
(* only in an enqueue, as the job that request created, and leaves it only *)
(* in a cleanup.                                                           *)
(***************************************************************************)
C28_Step ==
    \/ UNCHANGED <<heap, emailQueue>>
    \/ LET before == Range(emailQueue)
           after == Range(emailQueue')
       IN  /\ \A r \in before \cap after :
                  /\ heap'[r].id = heap[r].id
                  /\ heap'[r].email = heap[r].email
                  /\ heap'[r].filename = heap[r].filename
                  /\ heap'[r].filePath = heap[r].filePath
                  /\ heap'[r].timestamp = heap[r].timestamp
                  /\ (\/ heap'[r].status # heap[r].status
                      \/ heap'[r].retryCount # heap[r].retryCount) =>
                         (TimerTick \/ ResumeAny)
           /\ \A r \in after \ before :
                  /\ \E email \in Emails, filename \in Filenames :
                         PostEmailSend(email, filename)
                  /\ ret'.code = 200 /\ ret'.job = r
                  /\ heap'[r].id = ret'.jobId
           /\ (before \ after # {}) => CleanupStep

C28_ImmutableFields == [][C28_Step]_vars

\* a job delivered at its third attempt, half a day or more after its creation
C28_Witness ==
    \E r \in Queued :
        /\ heap[r].status = "sent" /\ heap[r].retryCount = 2
        /\ heap[r].timestamp < now
        /\ heap[r].email = "a@b.com" /\ heap[r].filePath = JoinUploads("a.png")

(***************************************************************************)
(* C29. A failed job has retryCount 3 and three failed attempts behind it; *)
(* a sent job has retryCount 2 at most.                                    *)
(***************************************************************************)
C29_FailedAfterThree ==
    \A r \in Queued :
        /\ heap[r].status = "failed" =>
               heap[r].retryCount = 3 /\ hist[r].fail = 3
        /\ heap[r].status = "sent" => heap[r].retryCount <= 2

\* a failed job next to a job sent at its last attempt
C29_Witness ==
    \E a, b \in Queued :
        /\ heap[a].status = "failed"
        /\ heap[b].status = "sent" /\ heap[b].retryCount = 2

(***************************************************************************)
(* C30. With a timer that keeps firing and attempts that all report, a job *)
(* that is pending or sending is eventually sent, failed or removed.       *)
(***************************************************************************)
C30_JobsSettle ==
    \A r \in Refs :
        (heap[r].status \in {"pending", "sending"})
            ~> (heap[r].status \in {"sent", "failed", "none"})

\* both jobs are settled, the second after three failed attempts
C30_Witness ==
    /\ Len(emailQueue) = 2
    /\ \A r \in Queued : Terminal(heap[r].status)
    /\ heap[emailQueue[2]].status = "failed"
    /\ ~isProcessing

(***************************************************************************)
(* C31. A job is attempted three times at most, and whenever none of its   *)
(* attempts is in flight its retryCount is the number of its attempts that *)
(* failed.                                                                 *)
(***************************************************************************)
C31_AttemptsBounded ==
    \A r \in Queued :
        /\ hist[r].att <= 3
        /\ Inflight(r) = 0 => heap[r].retryCount = hist[r].fail

\* a job delivered by its third attempt
C31_Witness ==
    \E r \in Queued :
        /\ hist[r].att = 3 /\ hist[r].fail = 2 /\ hist[r].ok = 1
        /\ Inflight(r) = 0
        /\ heap[r].retryCount = 2

(***************************************************************************)
(* C32. A job has one successful attempt at most, and once it has one it   *)
(* is sent and no further attempt on it is started.                        *)
(***************************************************************************)
C32_DeliveredOnce ==
    \A r \in Queued :
        /\ hist[r].ok <= 1
        /\ hist[r].ok = 1 =>
               /\ heap[r].status = "sent"
               /\ Inflight(r) = 0
               /\ \A i \in DOMAIN runs :
                      \A k \in DOMAIN runs[i].batch :
                          runs[i].batch[k] = r => k < runs[i].pos

\* a later cycle is attempting another job while the delivered one is queued
C32_Witness ==
    \E r \in Queued, i \in DOMAIN runs :
        /\ hist[r].ok = 1
        /\ r \notin Range(runs[i].batch)
        /\ runs[i].await = "transport"

(***************************************************************************)
(* C33. At most one job of the queue has status sending.                   *)
(***************************************************************************)
Sending == {r \in Queued : heap[r].status = "sending"}

C33_OneSending == Cardinality(Sending) <= 1

\* the second job of a batch is being sent, the first has reported
C33_Witness ==
    /\ Cardinality(Sending) = 1
    /\ \E i \in DOMAIN runs :
           /\ Len(runs[i].batch) = 2 /\ runs[i].pos = 2
           /\ runs[i].batch[2] \in Sending

(***************************************************************************)
(* C34. With the run-flag clear no job is sending, and the flag is set     *)
(* exactly while an execution of processQueue is suspended in its loop.    *)
(***************************************************************************)
C34_FlagMeansCycle ==
    /\ ~isProcessing => Sending = {}
    /\ isProcessing <=> runs # <<>>

\* between two cycles: the flag is clear and a job waits for its retry
C34_Witness ==
    /\ ~isProcessing
    /\ \E r \in Queued : heap[r].status = "pending" /\ hist[r].fail >= 1

(***************************************************************************)
(* C35. A job that is sending when the step begins is removed only by the  *)
(* step that records the outcome of its attempt, the last of the only      *)
(* cycle; when a cycle ends every job of its batch has been attempted and  *)
(* no job left in the queue is sending.                                    *)
(***************************************************************************)
C35_Step ==
    /\ (runs # <<>> /\ runs' = <<>>) =>
           /\ \A i \in DOMAIN runs : runs[i].pos = Len(runs[i].batch)
           /\ \A r \in Range(emailQueue') : heap'[r].status # "sending"
    /\ \A r \in Queued \ Range(emailQueue') :
           heap[r].status = "sending" =>
               /\ Len(runs) = 1
               /\ runs[1].pos = Len(runs[1].batch)
               /\ runs[1].batch[runs[1].pos] = r

C35_CleanupAfterOutcomes == [][C35_Step]_vars

\* the first job was cleaned up; the second, kept, has been attempted since
C35_Witness ==
    /\ nextRef = 3 /\ emailQueue = <<2>>
    /\ ~isProcessing
    /\ hist[2].att >= 1

(***************************************************************************)
(* C36, as stated: a job removed by the cleanup has been attempted at      *)
(* least once.                                                             *)
(***************************************************************************)
C36_OriginalStep ==
    \A r \in Queued \ Range(emailQueue') : hist[r].att >= 1

C36_Step ==
    \A r \in Queued \ Range(emailQueue') :
        \/ hist[r].att >= 1
        \/ /\ ~Young(r)
           /\ \E i \in DOMAIN runs : r \in EnqueuedSince(i)

C37_BatchIsSnapshot ==
    \A i \in DOMAIN runs :
        /\ \A k \in DOMAIN runs[i].batch : runs[i].batch[k] < runs[i].since
        /\ runs[i].log = SubSeq(runs[i].batch, 1, runs[i].pos)
        /\ \A r \in Queued :
               (r < runs[i].since /\ r \notin Range(runs[i].batch)) =>
                   Terminal(heap[r].status)
        /\ \A r \in EnqueuedSince(i) :
               heap[r].status = "pending" /\ hist[r].att = 0

\* a job was enqueued while the transport is awaited
C37_Witness ==
    \E i \in DOMAIN runs :
        /\ runs[i].await = "transport"
        /\ EnqueuedSince(i) # {}

(***************************************************************************)
(* C38. The jobs of a batch are in the order of their enqueue, and they    *)
(* are attempted in that order, one after the other: when the attempt on a *)
(* job is started, the attempts on the jobs before it have reported.       *)
(***************************************************************************)
QueueIndex(r) == CHOOSE n \in DOMAIN emailQueue : emailQueue[n] = r

C38_EnqueueOrder ==
    \A i \in DOMAIN runs :
        \A k, m \in DOMAIN runs[i].batch :
            k < m =>
                /\ runs[i].batch[k] < runs[i].batch[m]
                /\ QueueIndex(runs[i].batch[k]) < QueueIndex(runs[i].batch[m])
                /\ m <= runs[i].pos =>
                       /\ Inflight(runs[i].batch[k]) = 0
                       /\ hist[runs[i].batch[k]].att >= 1
                /\ m > runs[i].pos => hist[runs[i].batch[m]].att = hist[runs[i].batch[m]].fail

\* the older job of the batch was delivered, the newer one is being attempted
C38_Witness ==
    \E i \in DOMAIN runs :
        /\ Len(runs[i].batch) = 2 /\ runs[i].pos = 2
        /\ heap[runs[i].batch[1]].status = "sent"
        /\ Inflight(runs[i].batch[2]) = 1

(***************************************************************************)
(* C39. The counter is one more than the number of registered addresses,   *)
(* and the aliases of the n registered addresses are H1 .. Hn, each once.  *)
(***************************************************************************)
C39_NoGapsNoReuse ==
    LET ips == {originAliases[i].ip : i \in DOMAIN originAliases}
        aliases == {originAliases[i].alias : i \in DOMAIN originAliases}
    IN  /\ Cardinality(ips) = Len(originAliases)
        /\ nextAliasIndex = Cardinality(ips) + 1
        /\ aliases = {AliasName(n) : n \in 1 .. Cardinality(ips)}
        /\ Cardinality(aliases) = Cardinality(ips)

\* every address of the model is registered and no request is in flight
C39_Witness ==
    /\ Len(originAliases) = Cardinality(Addresses)
    /\ nextAliasIndex = Cardinality(Addresses) + 1
    /\ uploads = <<>>

====
